---- MODULE Spec2Model ----
(***************************************************************************)
(* free-dev-space: a CLI that scans a directory tree for regenerable dev   *)
(* artifacts (node_modules, Pods, build, target, ...), sizes them and      *)
(* deletes them after confirmation.                                        *)
(*                                                                         *)
(* Paths are absolute, normalised POSIX paths, modelled as the sequence of *)
(* their components: <<>> is "/", <<"a","b">> is "/a/b".                    *)
(* Strings typed at the prompt are sequences of one-character strings.     *)
(***************************************************************************)
EXTENDS Naturals, Integers, Sequences, FiniteSets, TLC

VARIABLES
    fs,         \* the file system: path -> [kind: "dir"|"file", size: Nat]
    denied,     \* paths whose lookup (stat, access) fails with EACCES
    unreadable, \* directories whose listing (readdir) fails with EACCES
    pc,         \* position of main
    args,       \* result of parseArgs
    targetPath, \* main's targetPath (scan's rootPath)
    stack,      \* walk's call stack: frames [dir, todo]
    results,    \* scan's results array: records [name, path, size]
    readdirs,   \* directories on which walk called fs.readdirSync
    sizeIdx,    \* number of records whose size main has assigned
    delIdx,     \* deleteResults' loop index i
    freed,      \* deleteResults' freed
    failed,     \* deleteResults' failed
    rmCalls,    \* the fs.rmSync calls made so far: [path, ok, existed]
    prompted,   \* whether prompt() was called
    line,       \* the line typed at the prompt and not yet read (<<"?">> when none)
    answer,     \* main's answer, what prompt() resolved to (<<"?">> when none)
    exitCode,   \* the process exit code, -1 while running
    call,       \* arguments of a direct isTargetMatch call
    ret,        \* its return value
    matched     \* whether that call has returned

vars == <<fs, denied, unreadable, pc, args, targetPath, stack, results, readdirs, sizeIdx,
          delIdx, freed, failed, rmCalls, prompted, line, answer, exitCode, call, ret, matched>>

world == <<fs, denied, unreadable>>
runVars == <<pc, args, targetPath, stack, results, readdirs, sizeIdx, delIdx,
             freed, failed, rmCalls, prompted, line, answer, exitCode>>

----------------------------------------------------------------------------
(* path helpers (node's path module on normalised POSIX paths) *)

\* path.join(dir, name) for a single component name
Join(dir, name) == Append(dir, name)

\* a basename that takes the first component instead of the last
BasenameFirst(dir) == IF dir = <<>> THEN "" ELSE dir[1]

\* path.basename(dir); the basename of "/" is ""
Basename(dir) == IF dir = <<>> THEN "" ELSE dir[Len(dir)]

\* path.dirname(p)
Dirname(p) == IF p = <<>> THEN <<>> ELSE SubSeq(p, 1, Len(p) - 1)

\* dir.split(path.sep): "/".split("/") is ["", ""], "/a/b".split("/") is ["", "a", "b"]
SplitSep(dir) == IF dir = <<>> THEN <<"", "">> ELSE <<"">> \o dir

\* p is dir itself or lies beneath it
IsPrefix(dir, p) == Len(dir) <= Len(p) /\ SubSeq(p, 1, Len(dir)) = dir

ProperDescendant(dir, p) == IsPrefix(dir, p) /\ Len(dir) < Len(p)

----------------------------------------------------------------------------
(* file system primitives *)

Exists(p) == p = <<>> \/ p \in DOMAIN fs

IsDir(p) == p = <<>> \/ (p \in DOMAIN fs /\ fs[p].kind = "dir")

IsFile(p) == p \in DOMAIN fs /\ fs[p].kind = "file"

\* fs.accessSync(p, F_OK) returns without throwing
AccessOk(p) == Exists(p) /\ p \notin denied

\* fs.statSync(p) returns without throwing
StatOk(p) == Exists(p) /\ p \notin denied

\* fs.readdirSync(dir) returns without throwing
ReaddirOk(dir) == IsDir(dir) /\ dir \notin unreadable

\* the paths directly inside dir
Children(dir) == { q \in DOMAIN fs : Len(q) = Len(dir) + 1 /\ IsPrefix(dir, q) }

\* fs.readdirSync(dir, {withFileTypes: true}): the Dirents of dir
Dirents(dir) == { [name |-> q[Len(q)], isDirectory |-> fs[q].kind = "dir"] : q \in Children(dir) }

----------------------------------------------------------------------------
(* target definitions *)

TARGETS == <<
    [name |-> "node_modules", match |-> "direct"],
    [name |-> "Pods", match |-> "parent", parent |-> "ios"],
    [name |-> ".next", match |-> "direct"],
    [name |-> ".nuxt", match |-> "direct"],
    [name |-> ".gradle", match |-> "parent", parent |-> "android"],
    [name |-> "build", match |-> "parentPath", parents |-> <<"android", "app">>],
    [name |-> ".cxx", match |-> "parentPath", parents |-> <<"android", "app">>],
    [name |-> "dist", match |-> "direct"],
    [name |-> "vendor", match |-> "sibling", sibling |-> "Gemfile"],
    [name |-> ".build", match |-> "direct"],
    [name |-> "target", match |-> "sibling", sibling |-> "Cargo.toml"],
    [name |-> "__pycache__", match |-> "direct"],
    [name |-> ".venv", match |-> "direct"],
    [name |-> "venv", match |-> "direct"],
    [name |-> ".dart_tool", match |-> "direct"],
    [name |-> ".turbo", match |-> "direct"],
    [name |-> ".parcel-cache", match |-> "direct"] >>

TARGET_NAMES == { TARGETS[i].name : i \in 1..Len(TARGETS) }

SKIP_DIRS == {".git"}

----------------------------------------------------------------------------
(* scanner: isTargetMatch *)

\* a "parentPath" test that forgets the grandparent
ParentPathOkParentOnly(parts, parents) ==
    /\ Len(parts) >= 2
    /\ parts[Len(parts)] = parents[2]

\* the "parentPath" test on parts = entryDir.split(path.sep)
ParentPathOk(parts, parents) ==
    /\ Len(parts) >= 2
    /\ parts[Len(parts)] = parents[2]
    /\ parts[Len(parts) - 1] = parents[1]

\* a switch whose "direct" case lacks its return and falls through to the
\* "parent" case, where target.parent is undefined
TargetCaseFallThrough(target, entryDir) ==
    CASE target.match = "direct" -> FALSE
      [] target.match = "parent" -> Basename(entryDir) = target.parent
      [] target.match = "parentPath" -> ParentPathOk(SplitSep(entryDir), target.parents)
      [] target.match = "sibling" -> AccessOk(Join(entryDir, target.sibling))
      [] OTHER -> FALSE

\* one iteration of the switch: TRUE when the case returns true, FALSE on break
TargetCase(target, entryDir) ==
    CASE target.match = "direct" -> TRUE
      [] target.match = "parent" -> Basename(entryDir) = target.parent
      [] target.match = "parentPath" -> ParentPathOk(SplitSep(entryDir), target.parents)
      [] target.match = "sibling" -> AccessOk(Join(entryDir, target.sibling))
      [] OTHER -> FALSE

\* the for loop over TARGETS from index i on
RECURSIVE MatchFrom(_, _, _)
MatchFrom(i, entryName, entryDir) ==
    IF i > Len(TARGETS) THEN FALSE
    ELSE IF TARGETS[i].name # entryName THEN MatchFrom(i + 1, entryName, entryDir)
    ELSE IF TargetCase(TARGETS[i], entryDir) THEN TRUE
    ELSE MatchFrom(i + 1, entryName, entryDir)

isTargetMatch(entryName, entryDir) == MatchFrom(1, entryName, entryDir)

----------------------------------------------------------------------------
(* bounds and input sets *)

MaxDirLen == 3

NoAnswer == <<"?">>

DirEnt == [kind |-> "dir", size |-> 0]

FileEnt(bytes) == [kind |-> "file", size |-> bytes]

\* p and all the directories above it, "/" excluded
Ancestors(p) == { SubSeq(p, 1, k) : k \in 1..Len(p) }

\* names of directory entries handed to isTargetMatch
MatchNames == TARGET_NAMES \cup {"NotPods", "src", ".git"}

\* names of the directories above the entry
ParentNames == {"ios", "android", "app", "src"}

RECURSIVE SeqsUpTo(_, _)
SeqsUpTo(S, n) ==
    IF n = 0 THEN {<<>>}
    ELSE LET shorter == SeqsUpTo(S, n - 1)
         IN  shorter \cup { Append(s, x) : s \in { t \in shorter : Len(t) = n - 1 }, x \in S }

MatchDirs == SeqsUpTo(ParentNames, MaxDirLen)

\* what sits next to the entry: nothing, or a manifest name as a file or a directory
SiblingCases ==
    {[name |-> "", kind |-> "none", denied |-> FALSE]} \cup
    [name : {"Gemfile", "Cargo.toml"}, kind : {"file", "dir"}, denied : BOOLEAN]

\* the tree holding entryDir, the entry as a directory, and the sibling
MatchWorld(entryName, entryDir, sib) ==
    LET dirs == Ancestors(Join(entryDir, entryName))
        sibs == IF sib.kind = "none" THEN {} ELSE {Join(entryDir, sib.name)}
    IN  [p \in dirs \cup sibs |->
            IF p \in sibs /\ sib.kind = "file" THEN FileEnt(1) ELSE DirEnt]

\* parseArgs' initial args object
DefaultArgs == [path |-> "null", dryRun |-> FALSE, yes |-> FALSE,
                version |-> FALSE, help |-> FALSE]

\* the run-state of a process in which neither scan nor deleteResults has run
Idle ==
    /\ stack = <<>>
    /\ results = <<>>
    /\ readdirs = {}
    /\ sizeIdx = 0
    /\ delIdx = 0
    /\ freed = 0
    /\ failed = 0
    /\ rmCalls = <<>>
    /\ prompted = FALSE
    /\ line = NoAnswer
    /\ answer = NoAnswer
    /\ exitCode = -1

----------------------------------------------------------------------------
(* isTargetMatch called on its own *)

InitMatch ==
    /\ Idle
    /\ pc = "idle"
    /\ args = DefaultArgs
    /\ targetPath = <<>>
    /\ \E n \in MatchNames, d \in MatchDirs, sib \in SiblingCases :
        /\ call = [name |-> n, dir |-> d]
        /\ fs = MatchWorld(n, d, sib)
        /\ denied = IF sib.denied THEN {Join(d, sib.name)} ELSE {}
        /\ unreadable = {}
    /\ ret = FALSE
    /\ matched = FALSE

CallIsTargetMatch ==
    /\ ~matched
    /\ call.name # ""
    /\ ret' = isTargetMatch(call.name, call.dir)
    /\ matched' = TRUE
    /\ UNCHANGED <<world, runVars, call>>

NextMatch == CallIsTargetMatch

SpecMatch == InitMatch /\ [][NextMatch]_vars

----------------------------------------------------------------------------
(* scanner: scan and its inner walk *)

\* a loop body that also walks into the directories it records
WalkBodyIntoMatched(entry, dir) ==
    IF ~entry.isDirectory THEN [push |-> FALSE, recurse |-> FALSE]
    ELSE IF entry.name \in SKIP_DIRS THEN [push |-> FALSE, recurse |-> FALSE]
    ELSE IF isTargetMatch(entry.name, dir) THEN [push |-> TRUE, recurse |-> TRUE]
    ELSE IF entry.name \in TARGET_NAMES THEN [push |-> FALSE, recurse |-> FALSE]
    ELSE [push |-> FALSE, recurse |-> TRUE]

\* a loop body without the TARGET_NAMES test: it walks into every directory
\* that did not match
WalkBodyNoPrune(entry, dir) ==
    IF ~entry.isDirectory THEN [push |-> FALSE, recurse |-> FALSE]
    ELSE IF entry.name \in SKIP_DIRS THEN [push |-> FALSE, recurse |-> FALSE]
    ELSE IF isTargetMatch(entry.name, dir) THEN [push |-> TRUE, recurse |-> FALSE]
    ELSE [push |-> FALSE, recurse |-> TRUE]

\* what the body of walk's for loop does with one Dirent of dir:
\* push a record onto results, and/or call walk on it
WalkBody(entry, dir) ==
    IF ~entry.isDirectory THEN [push |-> FALSE, recurse |-> FALSE]
    ELSE IF entry.name \in SKIP_DIRS THEN [push |-> FALSE, recurse |-> FALSE]
    ELSE IF isTargetMatch(entry.name, dir) THEN [push |-> TRUE, recurse |-> FALSE]
    ELSE IF entry.name \in TARGET_NAMES THEN [push |-> FALSE, recurse |-> FALSE]
    ELSE [push |-> FALSE, recurse |-> TRUE]

\* the frames walk(dir) puts on the call stack: none when readdirSync throws
WalkFrames(dir) ==
    IF ReaddirOk(dir) THEN <<[dir |-> dir, todo |-> Dirents(dir)]>> ELSE <<>>

\* a walk whose readdirSync error is caught around the whole scan: it unwinds
\* every walk call
AfterWalkAborting(rest, dir) ==
    IF ReaddirOk(dir) THEN rest \o WalkFrames(dir) ELSE <<>>

\* the call stack once the loop body has called walk(dir): walk's own
\* try/catch returns from that one call when readdirSync throws
AfterWalk(rest, dir) == rest \o WalkFrames(dir)

\* a walk that applies the skip and target-name tests to the directory it is
\* given instead of to its entries
WalkRootSkippingTargets(dir) ==
    IF Basename(dir) \in TARGET_NAMES \cup SKIP_DIRS THEN <<>> ELSE WalkFrames(dir)

\* scan's call walk(rootPath): no test is made on rootPath itself
WalkRoot(dir) == WalkFrames(dir)

Top == stack[Len(stack)]

Pop == SubSeq(stack, 1, Len(stack) - 1)

\* main calls scan(targetPath), which calls walk(rootPath)
MainScan ==
    /\ pc = "validated"
    /\ pc' = "scan"
    /\ readdirs' = readdirs \cup {targetPath}
    /\ stack' = WalkRoot(targetPath)
    /\ results' = <<>>
    /\ UNCHANGED <<world, args, targetPath, sizeIdx, delIdx, freed, failed, rmCalls,
                   prompted, line, answer, exitCode, call, ret, matched>>

\* one iteration of the for loop of the innermost walk call, on the next entry
\* in readdir order (an order the operating system chooses)
WalkEntry ==
    /\ pc = "scan"
    /\ stack # <<>>
    /\ \E entry \in Top.todo :
        LET dir == Top.dir
            fullPath == Join(dir, entry.name)
            body == WalkBody(entry, dir)
            rest == Pop \o <<[dir |-> dir, todo |-> Top.todo \ {entry}]>>
        IN  /\ results' = IF body.push
                          THEN Append(results, [name |-> entry.name, path |-> fullPath, size |-> 0])
                          ELSE results
            /\ readdirs' = IF body.recurse THEN readdirs \cup {fullPath} ELSE readdirs
            /\ stack' = IF body.recurse THEN AfterWalk(rest, fullPath) ELSE rest
    /\ UNCHANGED <<world, pc, args, targetPath, sizeIdx, delIdx, freed, failed, rmCalls,
                   prompted, line, answer, exitCode, call, ret, matched>>

\* the for loop of the innermost walk call is over: walk returns
WalkReturn ==
    /\ pc = "scan"
    /\ stack # <<>>
    /\ Top.todo = {}
    /\ stack' = Pop
    /\ UNCHANGED <<world, pc, args, targetPath, results, readdirs, sizeIdx, delIdx, freed,
                   failed, rmCalls, prompted, line, answer, exitCode, call, ret, matched>>

\* scan returns results to main; with no results main shows the empty report
\* and exits with 0
MainAfterScan ==
    /\ pc = "scan"
    /\ stack = <<>>
    /\ IF Len(results) = 0
       THEN pc' = "exited" /\ exitCode' = 0
       ELSE pc' = "size" /\ exitCode' = exitCode
    /\ UNCHANGED <<world, args, targetPath, stack, results, readdirs, sizeIdx, delIdx, freed,
                   failed, rmCalls, prompted, line, answer, call, ret, matched>>

----------------------------------------------------------------------------
(* the trees the scanner is run on: under a base directory,                 *)
(*    base/A, base/A/B, base/A/B/C, base/S, base/A/T                        *)
(* each slot absent ("none") or an entry with a name and a kind             *)

None == [name |-> "", kind |-> "none"]

Dirs(names) == [name : names, kind : {"dir"}]

Files(names) == [name : names, kind : {"file"}]

EntOf(slot) == IF slot.kind = "file" THEN FileEnt(1) ELSE DirEnt

\* the slots that are present, as [path, slot]: a slot needs its parent to be a directory
Placed(base, A, B, C, S, T) ==
    LET pa == Join(base, A.name)
        pb == Join(pa, B.name)
        hasA == A.kind # "none"
        hasB == hasA /\ A.kind = "dir" /\ B.kind # "none"
    IN  (IF hasA THEN {[path |-> pa, slot |-> A]} ELSE {})
        \cup (IF hasB THEN {[path |-> pb, slot |-> B]} ELSE {})
        \cup (IF hasB /\ B.kind = "dir" /\ C.kind # "none"
              THEN {[path |-> Join(pb, C.name), slot |-> C]} ELSE {})
        \cup (IF S.kind # "none" /\ S.name # A.name
              THEN {[path |-> Join(base, S.name), slot |-> S]} ELSE {})
        \cup (IF hasA /\ A.kind = "dir" /\ T.kind # "none" /\ T.name # B.name
              THEN {[path |-> Join(pa, T.name), slot |-> T]} ELSE {})

Tree(base, A, B, C, S, T) ==
    LET placed == Placed(base, A, B, C, S, T)
        paths == { x.path : x \in placed }
    IN  [p \in Ancestors(base) \cup paths |->
            IF p \in paths THEN EntOf((CHOOSE x \in placed : x.path = p).slot) ELSE DirEnt]

ScanRoots == {<<>>, <<"node_modules">>, <<".git">>, <<"ios">>, <<"android", "app">>}

ScanA == Dirs({"node_modules", "target", "vendor", "android", "ios", "app", "build", ".cxx",
               "Pods", "src", ".git"})
            \cup Files({"node_modules"})

ScanB == {None} \cup Dirs({"node_modules", "app", "Pods", "NotPods", "target", "vendor", "build",
                           ".gradle", "src"})

ScanC == {None} \cup Dirs({"node_modules", "build", ".cxx"})

ScanS == {None} \cup Files({"Gemfile", "Cargo.toml"}) \cup Dirs({"Gemfile", "dist"})

ScanT == {None} \cup Files({"Cargo.toml", "Gemfile"}) \cup Dirs({"dist"})

\* which permission is missing: none, listing the root, listing A, listing A/B, looking up the manifests
ScanPerms == {"none", "unreadableRoot", "unreadableA", "unreadableB", "deniedManifest"}

InitScan ==
    /\ Idle
    /\ \E root \in ScanRoots, A \in ScanA, B \in ScanB, C \in ScanC, S \in ScanS,
          T \in ScanT, perm \in ScanPerms :
        /\ fs = Tree(root, A, B, C, S, T)
        /\ unreadable = CASE perm = "unreadableRoot" -> {root}
                          [] perm = "unreadableA" -> {Join(root, A.name)} \cap DOMAIN fs
                          [] perm = "unreadableB" -> {Join(Join(root, A.name), B.name)} \cap DOMAIN fs
                          [] OTHER -> {}
        /\ denied = IF perm = "deniedManifest"
                    THEN { p \in DOMAIN fs : p[Len(p)] \in {"Gemfile", "Cargo.toml"} }
                    ELSE {}
        /\ targetPath = root
    /\ pc = "validated"
    /\ args = DefaultArgs
    /\ call = [name |-> "", dir |-> <<>>]
    /\ ret = FALSE
    /\ matched = FALSE


NextScan == MainScan \/ WalkEntry \/ WalkReturn \/ MainAfterScan

SpecScan == InitScan /\ [][NextScan]_vars

----------------------------------------------------------------------------
(* utilities: parseArgs, prompt, getDirSize *)

MaxArgs == 2

MaxAnswerLen == 3

MaxKb == 1

\* command-line words that start with "-"
DashWords == {"-d", "--dry-run", "-y", "--yes", "-v", "--version", "-h", "--help", "-x"}

\* command-line words that do not: relative paths, and the empty word
PathWords == {".", "proj", "..", ""}

\* arg.startsWith("-")
StartsWithDash(arg) == arg \in DashWords

\* one iteration of parseArgs' loop
ParseArg(a, arg) ==
    IF arg \in {"-d", "--dry-run"} THEN [a EXCEPT !.dryRun = TRUE]
    ELSE IF arg \in {"-y", "--yes"} THEN [a EXCEPT !.yes = TRUE]
    ELSE IF arg \in {"-v", "--version"} THEN [a EXCEPT !.version = TRUE]
    ELSE IF arg \in {"-h", "--help"} THEN [a EXCEPT !.help = TRUE]
    ELSE IF ~StartsWithDash(arg) THEN [a EXCEPT !.path = arg]
    ELSE a

\* parseArgs(argv), argv being process.argv from index 2 on
RECURSIVE ParseFrom(_, _, _)
ParseFrom(a, argv, i) ==
    IF i > Len(argv) THEN a ELSE ParseFrom(ParseArg(a, argv[i]), argv, i + 1)

parseArgs(argv) == ParseFrom(DefaultArgs, argv, 1)

\* the process's working directory
Cwd == <<"work">>

\* path.resolve(args.path || "."): null and "" are falsy
Resolve(word) ==
    CASE word \in {"null", "", "."} -> Cwd
      [] word = ".." -> Dirname(Cwd)
      [] OTHER -> Join(Cwd, word)

\* characters typed at the prompt
AnswerChars == {" ", "y", "Y", "e", "s"}

IsSpace(ch) == ch = " "

\* String.prototype.trim
RECURSIVE TrimStart(_)
TrimStart(str) ==
    IF str # <<>> /\ IsSpace(Head(str)) THEN TrimStart(Tail(str)) ELSE str

RECURSIVE TrimEnd(_)
TrimEnd(str) ==
    IF str # <<>> /\ IsSpace(str[Len(str)]) THEN TrimEnd(SubSeq(str, 1, Len(str) - 1)) ELSE str

Trim(str) == TrimEnd(TrimStart(str))

\* String.prototype.toLowerCase
LowerChar(ch) ==
    CASE ch = "Y" -> "y" [] ch = "E" -> "e" [] ch = "S" -> "s" [] ch = "N" -> "n" [] OTHER -> ch

ToLowerCase(str) == [i \in 1..Len(str) |-> LowerChar(str[i])]

\* what prompt() resolves to for the line typed
PromptValue(typed) == ToLowerCase(Trim(typed))

\* a test that takes every answer beginning with y
IsYesPrefix(ans) == ans # <<>> /\ ans[1] = "y"

\* main's test on the answer: deletion goes ahead
IsYes(ans) == ans = <<"y">> \/ ans = <<"y", "e", "s">>

\* sums of one element from each set of a family of sets of numbers
RECURSIVE SumChoices(_)
SumChoices(sets) ==
    IF sets = <<>> THEN {0}
    ELSE { x + y : x \in Head(sets), y \in SumChoices(Tail(sets)) }

\* a set as a sequence, in some order
RECURSIVE SeqOf(_)
SeqOf(S) == IF S = {} THEN <<>> ELSE LET x == CHOOSE y \in S : TRUE IN <<x>> \o SeqOf(S \ {x})

\* the values `du -sk` can yield: kb * 1024
DuSizes == { kb * 1024 : kb \in 0..MaxKb }

\* the values getDirSize(dirPath) can return: du's, or, when du fails or on
\* win32, the sum over the entries, each one's lookup error counting as 0
RECURSIVE getDirSize(_)
getDirSize(dirPath) ==
    DuSizes \cup
    (IF ~ReaddirOk(dirPath) THEN {0}
     ELSE LET kids == SeqOf(Children(dirPath))
              sizeOf(q) == IF fs[q].kind = "file"
                           THEN (IF StatOk(q) THEN {fs[q].size} ELSE {0})
                           ELSE getDirSize(q)
          IN  SumChoices([i \in 1..Len(kids) |-> sizeOf(kids[i])]))

\* an insertion that takes a record of equal size for one already there
InsertBySizeLosingTies(sorted, r) ==
    IF \E i \in 1..Len(sorted) : sorted[i].size = r.size THEN sorted
    ELSE LET k == Cardinality({ i \in 1..Len(sorted) : sorted[i].size > r.size })
         IN  SubSeq(sorted, 1, k) \o <<r>> \o SubSeq(sorted, k + 1, Len(sorted))

\* results.sort((a, b) => b.size - a.size): a stable sort, largest first
RECURSIVE InsertBySize(_, _)
InsertBySize(sorted, r) ==
    IF sorted = <<>> THEN <<r>>
    ELSE IF Head(sorted).size >= r.size THEN <<Head(sorted)>> \o InsertBySize(Tail(sorted), r)
    ELSE <<r>> \o sorted

RECURSIVE SortBySize(_)
SortBySize(rs) ==
    IF rs = <<>> THEN <<>>
    ELSE InsertBySize(SortBySize(SubSeq(rs, 1, Len(rs) - 1)), rs[Len(rs)])

----------------------------------------------------------------------------
(* main *)

Argvs == SeqsUpTo(DashWords \cup PathWords, MaxArgs)

\* a validation without the isDirectory test
ValidateNoDirectoryTest(p) == IF ~StatOk(p) THEN "notFound" ELSE "ok"

\* a main that tests --yes before --dry-run
AfterShowYesFirst(a) ==
    IF a.yes THEN "delete"
    ELSE IF a.dryRun THEN "exit"
    ELSE "prompt"

\* main's validation of targetPath: statSync throws, or the path is no
\* directory, or it is one
Validate(p) ==
    IF ~StatOk(p) THEN "notFound"
    ELSE IF ~IsDir(p) THEN "notDirectory"
    ELSE "ok"

\* where main goes after showResults: a dry run stops; otherwise it prompts
\* unless --yes was given
AfterShow(a) ==
    IF a.dryRun THEN "exit"
    ELSE IF ~a.yes THEN "prompt"
    ELSE "delete"

Lines == SeqsUpTo(AnswerChars, MaxAnswerLen)

\* process.exit(code), or the process ending by itself with nothing left to run
Exit(code) == pc' = "exited" /\ exitCode' = code

\* main up to the call of scan: parseArgs, --version, --help, and the
\* validation of the resolved path
MainStart ==
    /\ pc = "start"
    /\ \E argv \in Argvs :
        LET a == parseArgs(argv)
            resolved == Resolve(a.path)
        IN  /\ args' = a
            /\ IF a.version \/ a.help
               THEN Exit(0) /\ targetPath' = targetPath
               ELSE /\ targetPath' = resolved
                    /\ IF Validate(resolved) # "ok" THEN Exit(1)
                       ELSE pc' = "validated" /\ exitCode' = exitCode
    /\ UNCHANGED <<world, stack, results, readdirs, sizeIdx, delIdx, freed, failed, rmCalls,
                   prompted, line, answer, call, ret, matched>>

\* one iteration of main's sizing loop: results[i].size = getDirSize(results[i].path)
MainSize ==
    /\ pc = "size"
    /\ sizeIdx < Len(results)
    /\ \E bytes \in getDirSize(results[sizeIdx + 1].path) :
        results' = [results EXCEPT ![sizeIdx + 1].size = bytes]
    /\ sizeIdx' = sizeIdx + 1
    /\ UNCHANGED <<world, pc, args, targetPath, stack, readdirs, delIdx, freed, failed, rmCalls,
                   prompted, line, answer, exitCode, call, ret, matched>>

\* after the sizing loop: showResults sorts results in place; a dry run stops
\* here; otherwise main prompts unless --yes was given
MainShowResults ==
    /\ pc = "size"
    /\ sizeIdx = Len(results)
    /\ results' = SortBySize(results)
    /\ CASE AfterShow(args) = "exit" -> Exit(0) /\ prompted' = prompted
         [] AfterShow(args) = "prompt" -> pc' = "prompt" /\ prompted' = TRUE /\ exitCode' = exitCode
         [] OTHER -> pc' = "delete" /\ prompted' = prompted /\ exitCode' = exitCode
    /\ UNCHANGED <<world, args, targetPath, stack, readdirs, sizeIdx, delIdx, freed, failed,
                   rmCalls, line, answer, call, ret, matched>>

\* somebody types a line at the prompt
TypeLine ==
    /\ pc = "prompt"
    /\ line = NoAnswer
    /\ line' \in Lines
    /\ UNCHANGED <<world, pc, args, targetPath, stack, results, readdirs, sizeIdx, delIdx,
                   freed, failed, rmCalls, prompted, answer, exitCode, call, ret, matched>>

\* readline hands the line to prompt's callback, prompt() resolves and main
\* resumes: it goes on to delete only on "y" or "yes"
PromptAnswer ==
    /\ pc = "prompt"
    /\ line # NoAnswer
    /\ answer' = PromptValue(line)
    /\ line' = NoAnswer
    /\ IF ~IsYes(PromptValue(line)) THEN Exit(0)
       ELSE pc' = "delete" /\ exitCode' = exitCode
    /\ UNCHANGED <<world, args, targetPath, stack, results, readdirs, sizeIdx, delIdx, freed,
                   failed, rmCalls, prompted, call, ret, matched>>

\* standard input ends before a line is typed: the question's callback never
\* runs, and the process ends with nothing left to do
PromptClosed ==
    /\ pc = "prompt"
    /\ line = NoAnswer
    /\ Exit(0)
    /\ UNCHANGED <<world, args, targetPath, stack, results, readdirs, sizeIdx, delIdx, freed,
                   failed, rmCalls, prompted, line, answer, call, ret, matched>>

----------------------------------------------------------------------------
(* deletion *)

\* the file system without p and everything beneath it
Without(p) == [q \in { x \in DOMAIN fs : ~IsPrefix(p, x) } |-> fs[q]]

\* the file system without what lies beneath p
Emptied(p) == [q \in { x \in DOMAIN fs : ~ProperDescendant(p, x) } |-> fs[q]]

\* fs.rmSync(p, {recursive: true, force: true}): with force a missing path is
\* no error; an existing one is removed, or the call throws with the tree
\* untouched or partly removed
RmSync(p) ==
    IF ~Exists(p) THEN {[ok |-> TRUE, fs |-> fs]}
    ELSE {[ok |-> TRUE, fs |-> Without(p)], [ok |-> FALSE, fs |-> fs],
          [ok |-> FALSE, fs |-> Emptied(p)]}

\* an iteration that adds the size before it attempts the removal
TallySizeFirst(t, r, ok) ==
    IF ok THEN [freed |-> t.freed + r.size, failed |-> t.failed]
    ELSE [freed |-> t.freed + r.size, failed |-> t.failed + 1]

\* the try/catch of one iteration: freed and failed after the removal of r
Tally(t, r, ok) ==
    IF ok THEN [freed |-> t.freed + r.size, failed |-> t.failed]
    ELSE [freed |-> t.freed, failed |-> t.failed + 1]

\* one iteration of deleteResults' loop
DeleteStep ==
    /\ pc = "delete"
    /\ delIdx < Len(results)
    /\ LET r == results[delIdx + 1]
       IN  \E out \in RmSync(r.path) :
            /\ fs' = out.fs
            /\ denied' = denied \cap DOMAIN out.fs
            /\ unreadable' = unreadable \cap DOMAIN out.fs
            /\ rmCalls' = Append(rmCalls, [path |-> r.path, ok |-> out.ok,
                                            existed |-> Exists(r.path)])
            /\ freed' = Tally([freed |-> freed, failed |-> failed], r, out.ok).freed
            /\ failed' = Tally([freed |-> freed, failed |-> failed], r, out.ok).failed
    /\ delIdx' = delIdx + 1
    /\ UNCHANGED <<pc, args, targetPath, stack, results, readdirs, sizeIdx, prompted,
                   line, answer, exitCode, call, ret, matched>>

\* deleteResults returns, main returns, the process ends
DeleteDone ==
    /\ pc = "delete"
    /\ delIdx = Len(results)
    /\ Exit(0)
    /\ UNCHANGED <<world, args, targetPath, stack, results, readdirs, sizeIdx, delIdx, freed,
                   failed, rmCalls, prompted, line, answer, call, ret, matched>>

\* the environment: while deleteResults runs, something else removes a
\* recorded directory that deleteResults has not come to yet
OtherProcessRemoves ==
    /\ pc = "delete"
    /\ \E i \in (delIdx + 1)..Len(results) :
        /\ Exists(results[i].path)
        /\ fs' = Without(results[i].path)
    /\ denied' = denied \cap DOMAIN fs'
    /\ unreadable' = unreadable \cap DOMAIN fs'
    /\ UNCHANGED <<runVars, call, ret, matched>>

----------------------------------------------------------------------------
(* the whole program, run in /work on small trees *)

MainA == {None} \cup Dirs({"proj"}) \cup Files({"proj"})

MainB == Dirs({"node_modules", "src"})

MainC == {None} \cup Files({"a.js"})

MainS == {None} \cup Dirs({"node_modules", "dist"})

MainT == {None} \cup Dirs({".next"})

MainPerms == {"none", "deniedProj", "unreadableProj"}

InitMain ==
    /\ Idle
    /\ \E A \in MainA, B \in MainB, C \in MainC, S \in MainS, T \in MainT, perm \in MainPerms :
        /\ fs = Tree(Cwd, A, B, C, S, T)
        /\ denied = IF perm = "deniedProj" THEN {Join(Cwd, "proj")} \cap DOMAIN fs ELSE {}
        /\ unreadable = IF perm = "unreadableProj" THEN {Join(Cwd, "proj")} \cap DOMAIN fs ELSE {}
    /\ pc = "start"
    /\ args = DefaultArgs
    /\ targetPath = <<>>
    /\ call = [name |-> "", dir |-> <<>>]
    /\ ret = FALSE
    /\ matched = FALSE

Next ==
    \/ MainStart
    \/ MainScan
    \/ WalkEntry
    \/ WalkReturn
    \/ MainAfterScan
    \/ MainSize
    \/ MainShowResults
    \/ TypeLine
    \/ PromptAnswer
    \/ PromptClosed
    \/ DeleteStep
    \/ DeleteDone
    \/ OtherProcessRemoves

Spec == InitMain /\ [][Next]_vars

----------------------------------------------------------------------------
(* properties of isTargetMatch, checked under SpecMatch *)

\* the last component of a path, "" for "/"
LastOf(p) == IF Len(p) = 0 THEN "" ELSE p[Len(p)]

\* C1 (as claimed): for an entry named vendor in P, isTargetMatch returns true
\* if and only if a regular file named Gemfile exists directly in P and can be
\* accessed; in particular it returns false when P/Gemfile is a directory.
C1_VendorIffGemfileIsFile ==
    (matched /\ call.name = "vendor") =>
        (ret <=> (IsFile(Join(call.dir, "Gemfile")) /\ Join(call.dir, "Gemfile") \notin denied))

\* C3: for every name whose rule is direct, isTargetMatch returns true for
\* every parent directory, whatever its name, its ancestors and its entries.
DirectNames == {"node_modules", ".next", ".nuxt", "dist", ".build", "__pycache__", ".venv",
                "venv", ".dart_tool", ".turbo", ".parcel-cache"}

C3_DirectAlwaysMatches ==
    (matched /\ call.name \in DirectNames) => ret

C3_Witness ==
    /\ matched
    /\ call.name = ".parcel-cache"
    /\ call.dir = <<"src", "ios", "app">>
    /\ Join(call.dir, "Gemfile") \in DOMAIN fs
    /\ ret

\* C4: for Pods (requiring ios) and .gradle (requiring android), isTargetMatch
\* returns true if and only if the last component of the containing
\* directory is the required name; a different name such as NotPods under the
\* required parent is not matched.
C4_ParentStrategy ==
    matched =>
        /\ call.name = "Pods" => (ret <=> LastOf(call.dir) = "ios")
        /\ call.name = ".gradle" => (ret <=> LastOf(call.dir) = "android")
        /\ call.name = "NotPods" => ~ret

C4_Witness ==
    /\ matched
    /\ call.name = "Pods"
    /\ call.dir = <<"ios", "src">>
    /\ ~ret

----------------------------------------------------------------------------
(* properties of scan, checked under SpecScan *)

ResultPaths == { results[i].path : i \in 1..Len(results) }

\* scan has returned
ScanOver == pc \in {"size", "exited"}

\* walk listed the directory holding p, so p was one of the entries of its loop
Listed(p) == Dirname(p) \in readdirs /\ Dirname(p) \notin unreadable

\* the two components above p are android, app
UnderAndroidApp(p) ==
    /\ Len(p) >= 3
    /\ p[Len(p) - 2] = "android"
    /\ p[Len(p) - 1] = "app"

\* C2: a directory named build or .cxx is matched if and only if the last two
\* components of its parent are android, app: every such record of scan lies
\* under android/app, and every such directory that walk came across under
\* android/app is recorded; one under any other parent never is.
C2_BuildOnlyUnderAndroidApp ==
    /\ \A i \in 1..Len(results) :
        results[i].name \in {"build", ".cxx"} => UnderAndroidApp(results[i].path)
    /\ ScanOver =>
        \A p \in DOMAIN fs :
            (IsDir(p) /\ LastOf(p) \in {"build", ".cxx"} /\ Listed(p))
                => (p \in ResultPaths <=> UnderAndroidApp(p))

\* a build directly under /app, with no android above, was listed and left out
C2_Witness ==
    /\ ScanOver
    /\ targetPath = <<>>
    /\ IsDir(<<"app", "build">>)
    /\ Listed(<<"app", "build">>)
    /\ <<"app", "build">> \notin ResultPaths
    /\ <<"app", "build", ".cxx">> \in DOMAIN fs

\* C5: scan never descends into a directory it has recorded: no record's
\* directory is ever listed, and no record lies beneath another record.
C5_NoDescentIntoMatches ==
    /\ \A i \in 1..Len(results) : results[i].path \notin readdirs
    /\ \A i, j \in 1..Len(results) :
        ~ProperDescendant(results[i].path, results[j].path)

\* a recorded node_modules that holds a nested node_modules
C5_Witness ==
    /\ ScanOver
    /\ \E i \in 1..Len(results) :
        /\ results[i].name = "node_modules"
        /\ IsDir(Join(results[i].path, "node_modules"))
    /\ Len(results) = 1

\* p bears a target name but fails that target's safety check
FailsSafetyCheck(p) ==
    LET name == LastOf(p)
        dir == Dirname(p)
    IN  \/ name = "target" /\ ~AccessOk(Join(dir, "Cargo.toml"))
        \/ name = "vendor" /\ ~AccessOk(Join(dir, "Gemfile"))
        \/ name = "Pods" /\ LastOf(dir) # "ios"
        \/ name = ".gradle" /\ LastOf(dir) # "android"
        \/ name \in {"build", ".cxx"} /\ ~UnderAndroidApp(p)

\* C6: a directory below the root that bears a target name but fails its
\* safety check yields no record, is never listed, and nothing beneath it is
\* recorded.
C6_NoDescentIntoUnsafeTargets ==
    \A p \in DOMAIN fs :
        (IsDir(p) /\ ProperDescendant(targetPath, p) /\ FailsSafetyCheck(p)) =>
            /\ p \notin ResultPaths
            /\ p \notin readdirs
            /\ \A q \in ResultPaths : ~IsPrefix(p, q)

\* a target without Cargo.toml beside it, holding a node_modules, was listed
\* as an entry and the scan ended with no record
C6_Witness ==
    /\ ScanOver
    /\ \E p \in DOMAIN fs :
        /\ LastOf(p) = "target"
        /\ Listed(p)
        /\ Join(Dirname(p), "Cargo.toml") \notin DOMAIN fs
        /\ IsDir(Join(p, "node_modules"))
    /\ results = <<>>

----------------------------------------------------------------------------
(* properties of deleteResults and main, checked under Spec *)

\* the rmSync calls that threw
Failures == { i \in 1..Len(rmCalls) : ~rmCalls[i].ok }

\* the sizes of the first n records whose removal succeeded, summed
RECURSIVE FreedUpTo(_)
FreedUpTo(n) ==
    IF n = 0 THEN 0
    ELSE FreedUpTo(n - 1) + (IF rmCalls[n].ok THEN results[n].size ELSE 0)

\* C7: deleteResults attempts every record in turn whether or not earlier
\* removals threw; the failure count is the number of removals that threw;
\* freed is the sum of the sizes of exactly the records removed; and those
\* directories are gone. With one throw among N records: N-1 removed, one
\* failure, the failed record's size not counted.
C7_DeleteContinuesAndTallies ==
    /\ Len(rmCalls) = delIdx
    /\ delIdx <= Len(results)
    /\ \A i \in 1..Len(rmCalls) : rmCalls[i].path = results[i].path
    /\ failed = Cardinality(Failures)
    /\ freed = FreedUpTo(Len(rmCalls))
    /\ \A i \in 1..Len(rmCalls) : rmCalls[i].ok => ~Exists(rmCalls[i].path)
    /\ (pc = "exited" /\ rmCalls # <<>>) => Len(rmCalls) = Len(results)

\* three records, the first removal threw, the other two went through
C7_Witness ==
    /\ pc = "exited"
    /\ Len(results) = 3
    /\ Len(rmCalls) = 3
    /\ Failures = {1}
    /\ results[1].size = 1024
    /\ results[2].size = 1024
    /\ failed = 1
    /\ freed = 1024 + results[3].size
    /\ Exists(results[1].path)
    /\ ~Exists(results[2].path)
    /\ ~Exists(results[3].path)

\* the run got as far as calling scan
ScanCalled == targetPath \in readdirs

\* C8 (as claimed): on every path through main with dryRun true nothing is
\* removed, nothing is asked, and the process ends with exit code 0.
C8_DryRunAlwaysExitsZero ==
    args.dryRun =>
        /\ rmCalls = <<>>
        /\ ~prompted
        /\ pc = "exited" => exitCode = 0

\* C8 (amended): with dryRun true nothing is ever removed or asked; and when
\* the run gets as far as the scan (no --version, no --help, a root that is a
\* directory) it ends with every record sized and with exit code 0, whatever
\* --yes and the scan result are.
C8_DryRunDeletesNothing ==
    args.dryRun =>
        /\ rmCalls = <<>>
        /\ ~prompted
        /\ pc \notin {"prompt", "delete"}
        /\ (pc = "exited" /\ ScanCalled) => (exitCode = 0 /\ sizeIdx = Len(results))
        /\ (pc = "exited" /\ (args.version \/ args.help)) => exitCode = 0

\* a dry run with --yes that found and sized two records, and stopped
C8_Witness ==
    /\ args.dryRun
    /\ args.yes
    /\ pc = "exited"
    /\ exitCode = 0
    /\ Len(results) = 2
    /\ sizeIdx = 2
    /\ \A i \in 1..2 : Exists(results[i].path)

Spaces(n) == [i \in 1..n |-> " "]

\* the lines that are y or yes once trimmed and lower-cased
YesLines ==
    { Spaces(i) \o w \o Spaces(j) :
        i \in 0..MaxAnswerLen, j \in 0..MaxAnswerLen,
        w \in {<<"y">>, <<"Y">>} \cup
              { <<a, b, c>> : a \in {"y", "Y"}, b \in {"e", "E"}, c \in {"s", "S"} } }

\* C9: without --dry-run and without --yes nothing is removed unless the
\* prompt was answered with a line that is y or yes once trimmed and
\* lower-cased; any other line ends the run with exit code 0 and nothing
\* removed. With --yes the prompt is not shown, and once sizing is over the
\* run goes on to delete.
C9_Removals ==
    /\ rmCalls # <<>> =>
        /\ ~args.dryRun
        /\ args.yes \/ (prompted /\ answer \in {<<"y">>, <<"y", "e", "s">>})
    /\ pc = "delete" => (args.yes \/ (prompted /\ answer \in {<<"y">>, <<"y", "e", "s">>}))
    /\ args.yes => (~prompted /\ pc # "prompt")
    /\ (pc = "exited" /\ prompted /\ answer \notin {<<"y">>, <<"y", "e", "s">>}) =>
            (exitCode = 0 /\ rmCalls = <<>>)

C9_Steps ==
    /\ (pc = "prompt" /\ line # NoAnswer /\ line' = NoAnswer) =>
            IF line \in YesLines
            THEN pc' = "delete" /\ answer' \in {<<"y">>, <<"y", "e", "s">>}
            ELSE pc' = "exited" /\ exitCode' = 0 /\ rmCalls' = <<>>
                 /\ answer' \notin {<<"y">>, <<"y", "e", "s">>}
    /\ (pc = "size" /\ pc' # "size" /\ args.yes /\ ~args.dryRun) => pc' = "delete"
    /\ (pc = "size" /\ pc' # "size" /\ ~args.yes /\ ~args.dryRun) => pc' = "prompt"

C9_ConfirmationGatesDeletion == [](C9_Removals) /\ [][C9_Steps]_vars

\* " Y" was typed, and the run went on to remove a directory
C9_Witness ==
    /\ ~args.yes
    /\ prompted
    /\ answer = <<"y">>
    /\ rmCalls # <<>>
    /\ rmCalls[1].ok
    /\ pc = "exited"

\* the root main validated is not an existing, accessible directory
BadRoot == ~Exists(targetPath) \/ targetPath \in denied \/ ~IsDir(targetPath)

\* C10: when the resolved root does not exist or is no directory, the run
\* ends with exit code 1 before scan is called: nothing is listed, sized or
\* removed. When the root is a directory the run ends with exit code 0, also
\* when the scan finds nothing.
C10_RootValidation ==
    /\ (pc = "exited" /\ ~args.version /\ ~args.help) =>
            IF BadRoot
            THEN /\ exitCode = 1
                 /\ readdirs = {}
                 /\ results = <<>>
                 /\ sizeIdx = 0
                 /\ rmCalls = <<>>
            ELSE exitCode = 0
    /\ (pc \notin {"start", "exited"}) => ~BadRoot
    /\ exitCode = 1 => (readdirs = {} /\ rmCalls = <<>>)

\* proj is a file: the run ended with 1 and scan was never called
C10_Witness ==
    /\ pc = "exited"
    /\ exitCode = 1
    /\ IsFile(targetPath)
    /\ readdirs = {}

----------------------------------------------------------------------------
(* deleteResults on a record whose directory is gone, checked under Spec *)

\* the rmSync calls made on a path that no longer existed
Vanished == { i \in 1..Len(rmCalls) : ~rmCalls[i].existed }

\* the sizes of the first n records removed from a path that was still there
RECURSIVE FreedOfPresentUpTo(_)
FreedOfPresentUpTo(n) ==
    IF n = 0 THEN 0
    ELSE FreedOfPresentUpTo(n - 1)
         + (IF rmCalls[n].ok /\ rmCalls[n].existed THEN results[n].size ELSE 0)

\* C11 (as claimed): a record whose path has vanished by the time its removal
\* is attempted counts as a failure: it adds one to failed and nothing to
\* freed, and the loop goes on to the next record.
C11_VanishedCountsAsFailure ==
    /\ failed = Cardinality(Failures \cup Vanished)
    /\ freed = FreedOfPresentUpTo(Len(rmCalls))

----------------------------------------------------------------------------
(* unreadable directories and the scan root, checked under SpecScan *)

\* p passes the safety check of the target whose name it bears
PassesSafetyCheck(p) ==
    LET name == LastOf(p)
        dir == Dirname(p)
    IN  \/ name \in DirectNames
        \/ name = "Pods" /\ LastOf(dir) = "ios"
        \/ name = ".gradle" /\ LastOf(dir) = "android"
        \/ name \in {"build", ".cxx"} /\ UnderAndroidApp(p)
        \/ name = "target" /\ AccessOk(Join(dir, "Cargo.toml"))
        \/ name = "vendor" /\ AccessOk(Join(dir, "Gemfile"))

\* the directories from the root down to the one holding p
Above(p) == { SubSeq(p, 1, k) : k \in Len(targetPath)..(Len(p) - 1) }

\* p lies below the root, every directory from the root down to the one
\* holding p can be listed, and none of those below the root is pruned
ReachableThroughReadable(p) ==
    /\ ProperDescendant(targetPath, p)
    /\ \A d \in Above(p) :
        /\ ReaddirOk(d)
        /\ d # targetPath => LastOf(d) \notin TARGET_NAMES \cup SKIP_DIRS

\* a listing failed: readdirSync was called on it and threw
FailedListings == { d \in readdirs : ~ReaddirOk(d) }

C12_AtEnd ==
    /\ exitCode # 1
    /\ pc \in {"validated", "scan"} => ENABLED NextScan
    /\ ScanOver =>
        \A p \in DOMAIN fs :
            (IsDir(p) /\ ReachableThroughReadable(p) /\ PassesSafetyCheck(p))
                => p \in ResultPaths

\* a step of the scan keeps every record collected so far
C12_Steps ==
    /\ Len(results) <= Len(results')
    /\ SubSeq(results', 1, Len(results)) = results

\* C12: a directory that cannot be listed costs only its own subtree: scan
\* does not throw, no step drops a record already collected, and at the end
\* every matching directory that can be reached from the root through
\* listable directories that are not pruned is recorded.
C12_UnreadableLosesOnlySubtree == [](C12_AtEnd) /\ [][C12_Steps]_vars

\* a directory holding a node_modules could not be listed; its sibling dist,
\* reached after the failure or before it, is recorded
C12_Witness ==
    /\ ScanOver
    /\ \E d \in FailedListings :
        /\ d # targetPath
        /\ IsDir(Join(d, "node_modules"))
        /\ Join(Dirname(d), "dist") \in ResultPaths
    /\ Len(results) = 1

\* C14: the scan root is never a record: every record lies strictly below
\* rootPath, also when the root's own name is a target name or .git; the
\* root is listed all the same, and its matching entries are recorded.
C14_RootNeverRecorded ==
    /\ \A i \in 1..Len(results) : ProperDescendant(targetPath, results[i].path)
    /\ pc # "validated" => targetPath \in readdirs
    /\ (ScanOver /\ ReaddirOk(targetPath)) =>
        \A p \in Children(targetPath) :
            (IsDir(p) /\ LastOf(p) \notin SKIP_DIRS /\ PassesSafetyCheck(p))
                => p \in ResultPaths

\* the root is /node_modules or /.git, and a directory in it was recorded
C14_Witness ==
    /\ ScanOver
    /\ targetPath \in {<<"node_modules">>, <<".git">>}
    /\ \E i \in 1..Len(results) : Dirname(results[i].path) = targetPath

----------------------------------------------------------------------------
(* what is removed and when, checked under Spec *)

RemovedPaths == { rmCalls[i].path : i \in 1..Len(rmCalls) }

\* the paths of results, in order
PathsOf(rs) == [i \in 1..Len(rs) |-> rs[i].path]

C13_AtRemoval ==
    /\ \A i, j \in 1..Len(results) : i # j => results[i].path # results[j].path
    /\ \A i, j \in 1..Len(rmCalls) : i # j => rmCalls[i].path # rmCalls[j].path
    /\ RemovedPaths \subseteq ResultPaths
    /\ rmCalls # <<>> =>
        /\ pc \in {"delete", "exited"}
        /\ stack = <<>>
        /\ sizeIdx = Len(results)
    /\ (pc = "exited" /\ rmCalls # <<>>) => RemovedPaths = ResultPaths

C13_Steps ==
    \* once scan has returned, no step adds or drops a record
    /\ (pc \in {"size", "prompt", "delete"}) =>
            /\ ResultPaths' = ResultPaths
            /\ Len(results') = Len(results)
    \* sizing leaves the order alone; after the sort the array is not touched
    /\ (pc = "size" /\ pc' = "size") => PathsOf(results') = PathsOf(results)
    /\ (pc \in {"prompt", "delete"}) => results' = results
    \* the first removal comes after the last size
    /\ (rmCalls = <<>> /\ rmCalls' # <<>>) => (pc = "delete" /\ sizeIdx = Len(results))

\* C13: in a run that reaches deletion, removal is attempted once for each
\* record scan returned and for no other path; the first attempt comes after
\* scan has returned and every record has its size; the sort for display
\* changes the order of the records, not the set of paths removed.
C13_RemovesExactlyTheRecords == [](C13_AtRemoval) /\ [][C13_Steps]_vars

\* three records of different sizes, each attempted once, the run over
C13_Witness ==
    /\ pc = "exited"
    /\ Len(results) = 3
    /\ Len(rmCalls) = 3
    /\ results[1].size > results[3].size
    /\ results[2].size = results[3].size
    /\ RemovedPaths = ResultPaths
    /\ Cardinality(RemovedPaths) = 3

====
